---- MODULE Spec2Model ----
(***************************************************************************)
(* Model of src/main.py: GeoEntry (address record), GeoNode / GeoGraph     *)
(* (the containment hierarchy planet -> ... -> unit) and the script body   *)
(* (ingestion loop followed by the breadth-first export).                  *)
(*                                                                         *)
(* Strings are sequences of one-character strings, so that str.strip()     *)
(* is computed and not assumed.  GeoNode objects live in a heap: `nodes`   *)
(* is a sequence of objects and an object reference is its index.          *)
(***************************************************************************)
EXTENDS Integers, Sequences, FiniteSets, TLC

\* ------------------------------------------------------------------ bounds
\* Line budget of the ingestion loop (the script sets lines = 100).
MaxLines == 3
\* Longest raw string and largest mapping drawn when from_properties is
\* explored on its own.
MaxRawLen == 3
MaxKeys == 2

\* ----------------------------------------------------------------- strings
Whitespace == {" "}
Alphabet == {" ", "a"}

\* Python None, for optional strings.  Raw strings are built from
\* one-character strings, so no string equals None.
None == <<"None">>
\* Python None, for object references (references are 1..Len(nodes)).
NoNode == 0

RECURSIVE lstrip(_)
lstrip(s) ==
    IF s = <<>> THEN s
    ELSE IF Head(s) \in Whitespace THEN lstrip(Tail(s)) ELSE s

RECURSIVE rstrip(_)
rstrip(s) ==
    IF s = <<>> THEN s
    ELSE IF s[Len(s)] \in Whitespace THEN rstrip(SubSeq(s, 1, Len(s) - 1)) ELSE s

\* str.strip()
strip(s) == rstrip(lstrip(s))

\* ---------------------------------------------------------------- GeoEntry
Fields == {"region", "postcode", "city", "street", "number", "unit"}

\* Variant of get_entry: the value is tested but returned unstripped.
get_entry_unstripped(target_dict, target_entry) ==
    IF target_entry \in DOMAIN target_dict
    THEN LET target_value == target_dict[target_entry]
         IN  IF Len(target_value) > 0 THEN target_value ELSE None
    ELSE None

\* GeoEntry.get_entry
get_entry(target_dict, target_entry) ==
    IF target_entry \in DOMAIN target_dict
    THEN LET target_value == strip(target_dict[target_entry])
         IN  IF Len(target_value) > 0 THEN target_value ELSE None
    ELSE None

\* GeoEntry.from_properties (with GeoEntry.__init__)
from_properties(properties) ==
    [region   |-> get_entry(properties, "region"),
     postcode |-> get_entry(properties, "postcode"),
     city     |-> get_entry(properties, "city"),
     street   |-> get_entry(properties, "street"),
     number   |-> get_entry(properties, "number"),
     unit     |-> get_entry(properties, "unit")]

\* Variant of is_valid: the street is not tested.
is_valid_no_street(self) ==
    /\ self.region # None
    /\ self.postcode # None
    /\ self.city # None

\* GeoEntry.is_valid
is_valid(self) ==
    /\ self.region # None
    /\ self.postcode # None
    /\ self.city # None
    /\ self.street # None

\* ----------------------------------------------------------------- GeoNode
\* GeoNode.NodeType
PLANET == 0
COUNTRY == 1
REGION == 2
CITY == 3
POSTCODE == 4
STREET == 5
NUMBER == 6
UNIT == 7

Earth == <<"E", "a", "r", "t", "h">>
USA == <<"U", "S", "A">>

\* The empty dict.
EmptyDict == <<>>

\* GeoNode.__init__
GeoNode(label, node_type) ==
    [label |-> label, node_type |-> node_type, children |-> EmptyDict]

\* Variant of DictGet: no key is found.
DictGet_never(d, key) == NoNode

\* dict.get(key, None) on a dict of object references
DictGet(d, key) == IF key \in DOMAIN d THEN d[key] ELSE NoNode

\* Variant of DictSet: the dict is replaced by one that holds the key alone.
DictSet_alone(d, key, value) ==
    [k \in {key} |-> value]

\* d[key] = value
DictSet(d, key, value) ==
    [k \in DOMAIN d \cup {key} |-> IF k = key THEN value ELSE d[k]]

\* ---------------------------------------------------------------- GeoGraph
\* g.root: the first object allocated.
root == 1

\* Variant of _add_child: no lookup, a node is created on every call.
_add_child_always_new(h, parent_node, child_label, child_type) ==
    LET new == Len(h) + 1
        h1 == Append(h, GeoNode(child_label, child_type))
    IN  [nodes |-> [h1 EXCEPT ![parent_node].children = DictSet(@, child_label, new)],
         child_node |-> new]

\* Variant of _add_child: a node with the label and type that exists anywhere
\* in the heap is linked under the parent instead of a new one.
_add_child_shared(h, parent_node, child_label, child_type) ==
    LET child_node == DictGet(h[parent_node].children, child_label)
        same == {n \in 1..Len(h) : /\ h[n].label = child_label
                                   /\ h[n].node_type = child_type}
    IN  IF child_node # NoNode
        THEN [nodes |-> h, child_node |-> child_node]
        ELSE IF same # {}
        THEN LET old == CHOOSE n \in same : TRUE
             IN  [nodes |-> [h EXCEPT ![parent_node].children =
                               DictSet(@, child_label, old)],
                  child_node |-> old]
        ELSE LET new == Len(h) + 1
                 h1 == Append(h, GeoNode(child_label, child_type))
             IN  [nodes |-> [h1 EXCEPT ![parent_node].children =
                                 DictSet(@, child_label, new)],
                  child_node |-> new]

\* GeoGraph._add_child: the heap after the call and the returned reference.
_add_child(h, parent_node, child_label, child_type) ==
    LET child_node == DictGet(h[parent_node].children, child_label)
    IN  IF child_node = NoNode
        THEN LET new == Len(h) + 1
                 h1 == Append(h, GeoNode(child_label, child_type))
             IN  [nodes |-> [h1 EXCEPT ![parent_node].children =
                                 DictSet(@, child_label, new)],
                  child_node |-> new]
        ELSE [nodes |-> h, child_node |-> child_node]

\* One branch of the loop body of GeoGraph.add_child yields the heap, the
\* new cur_node and whether the loop goes on ("continue"), the call returns
\* ("return") or an exception leaves it.
Continue(r) == [nodes |-> r.nodes, cur_node |-> r.child_node, outcome |-> "continue"]

at_PLANET(h, child_entry, cur_node) ==
    [nodes |-> h, cur_node |-> root, outcome |-> "continue"]

at_COUNTRY(h, child_entry, cur_node) ==
    IF USA \in DOMAIN h[root].children
    THEN [nodes |-> h, cur_node |-> h[root].children[USA], outcome |-> "continue"]
    ELSE [nodes |-> h, cur_node |-> cur_node, outcome |-> "KeyError"]

\* Variant of at_REGION: the children of the country are dropped first.
at_REGION_replace(h, child_entry, cur_node) ==
    Continue(_add_child([h EXCEPT ![cur_node].children = EmptyDict],
                        cur_node, child_entry.region, REGION))

at_REGION(h, child_entry, cur_node) ==
    Continue(_add_child(h, cur_node, child_entry.region, REGION))

\* Variant of at_CITY: the node is given the type of the level above.
at_CITY_as_REGION(h, child_entry, cur_node) ==
    Continue(_add_child(h, cur_node, child_entry.city, REGION))

at_CITY(h, child_entry, cur_node) ==
    Continue(_add_child(h, cur_node, child_entry.city, CITY))

\* Variant of at_POSTCODE: the node is labelled with the city.
at_POSTCODE_by_city(h, child_entry, cur_node) ==
    Continue(_add_child(h, cur_node, child_entry.city, POSTCODE))

at_POSTCODE(h, child_entry, cur_node) ==
    Continue(_add_child(h, cur_node, child_entry.postcode, POSTCODE))

at_STREET(h, child_entry, cur_node) ==
    Continue(_add_child(h, cur_node, child_entry.street, STREET))

\* Variant of at_NUMBER: an absent number skips the level instead of
\* ending the call.
at_NUMBER_skip(h, child_entry, cur_node) ==
    IF child_entry.number = None
    THEN [nodes |-> h, cur_node |-> cur_node, outcome |-> "continue"]
    ELSE Continue(_add_child(h, cur_node, child_entry.number, NUMBER))

at_NUMBER(h, child_entry, cur_node) ==
    IF child_entry.number = None
    THEN [nodes |-> h, cur_node |-> cur_node, outcome |-> "return"]
    ELSE Continue(_add_child(h, cur_node, child_entry.number, NUMBER))

\* Variant of at_UNIT: the unit is not tested.
at_UNIT_unchecked(h, child_entry, cur_node) ==
    Continue(_add_child(h, cur_node, child_entry.unit, UNIT))

at_UNIT(h, child_entry, cur_node) ==
    IF child_entry.unit = None
    THEN [nodes |-> h, cur_node |-> cur_node, outcome |-> "return"]
    ELSE Continue(_add_child(h, cur_node, child_entry.unit, UNIT))

\* The if/elif chain of the loop body.
Branch(h, child_entry, node_type, cur_node) ==
    CASE node_type = PLANET   -> at_PLANET(h, child_entry, cur_node)
      [] node_type = COUNTRY  -> at_COUNTRY(h, child_entry, cur_node)
      [] node_type = REGION   -> at_REGION(h, child_entry, cur_node)
      [] node_type = CITY     -> at_CITY(h, child_entry, cur_node)
      [] node_type = POSTCODE -> at_POSTCODE(h, child_entry, cur_node)
      [] node_type = STREET   -> at_STREET(h, child_entry, cur_node)
      [] node_type = NUMBER   -> at_NUMBER(h, child_entry, cur_node)
      [] node_type = UNIT     -> at_UNIT(h, child_entry, cur_node)

\* The for loop of GeoGraph.add_child from node_type on: the heap after it
\* and how the call ended ("ok", or the exception raised).
RECURSIVE add_child_loop(_, _, _, _)
add_child_loop(h, child_entry, node_type, cur_node) ==
    IF node_type > UNIT
    THEN [nodes |-> h, outcome |-> "ok"]
    ELSE LET b == Branch(h, child_entry, node_type, cur_node)
         IN  IF b.outcome = "continue"
             THEN add_child_loop(b.nodes, child_entry, node_type + 1, b.cur_node)
             ELSE [nodes |-> b.nodes,
                   outcome |-> IF b.outcome = "return" THEN "ok" ELSE b.outcome]

\* Variant of add_child: the region node is stored before the record is
\* found incomplete.
add_child_region_first(h, child_entry) ==
    IF child_entry.region = None
    THEN [nodes |-> h, outcome |-> "ValueError"]
    ELSE IF ~is_valid(child_entry)
    THEN [nodes |-> at_REGION(h, child_entry, h[root].children[USA]).nodes,
          outcome |-> "ValueError"]
    ELSE add_child_loop(h, child_entry, PLANET, NoNode)

\* GeoGraph.add_child
add_child(h, child_entry) ==
    IF ~is_valid(child_entry)
    THEN [nodes |-> h, outcome |-> "ValueError"]
    ELSE add_child_loop(h, child_entry, PLANET, NoNode)

\* ------------------------------------------------------------------ inputs
\* Raw values the input file offers for each key of a "properties" object;
\* some are padded with whitespace.
RawChoices(key) ==
    CASE key = "region"   -> {<<"C", "A">>}
      [] key = "postcode" -> {<<"1">>, <<"2", " ">>}
      [] key = "city"     -> {<<"S", "D">>}
      [] key = "street"   -> {<<"M">>}
      [] key = "number"   -> {<<" ", "1">>, <<"2">>}
      [] key = "unit"     -> {<<"A">>}

\* The dict without some of its keys.
Without(d, D) == [k \in DOMAIN d \ D |-> d[k]]

\* "properties" objects with all six keys.
FullProps ==
    [region   : RawChoices("region"),
     postcode : RawChoices("postcode"),
     city     : RawChoices("city"),
     street   : RawChoices("street"),
     number   : RawChoices("number"),
     unit     : RawChoices("unit")]

\* "properties" objects of the input file: a full one, or one that lacks
\* any of its keys but region, postcode, city and street together with
\* number, or with unit.
InputProps ==
    {Without(p, D) : p \in FullProps,
                     D \in {K \in SUBSET Fields :
                              \/ K \subseteq {"number", "unit"}
                              \/ K \subseteq {"region", "postcode", "city", "street"}}}

\* Objects the lines of the input file stand for: one that carries a
\* "properties" object, or one that does not.
InputEntries == {[properties |-> p] : p \in InputProps} \cup {EmptyDict}

\* Lines of the input file: the JSON text of an object, or text that is
\* not JSON.
JsonText(value) == [kind |-> "json", value |-> value]
NotJson == [kind |-> "text", value |-> EmptyDict]
InputLines == {JsonText(e) : e \in InputEntries} \cup {NotJson}

\* json.loads: the object, or JSONDecodeError.
json_loads(text) ==
    IF text.kind = "json"
    THEN [value |-> text.value, outcome |-> "ok"]
    ELSE [value |-> EmptyDict, outcome |-> "JSONDecodeError"]

\* ------------------------------------------------------------------- state
VARIABLES
    nodes,          \* the heap of GeoNode objects; nodes[root] is g.root
    lines,          \* remaining line budget
    num_processed,
    num_incomplete,
    line,           \* the line last read
    entry,          \* the object parsed from it
    geo_entry,      \* the GeoEntry last built
    outcome,        \* how the last g.add_child call ended
    pc,             \* position in the script
    q,              \* queue of the breadth-first traversal
    nx_graph,       \* the DiGraph: its nodes and edges
    inserted,       \* history: the GeoEntry values g.add_child returned on
    dequeued,       \* history: the items q.get() returned, in order
    emitted,        \* history: the add_edge calls (item, child), in order
    calls           \* frames of g.add_child calls run level by level

vars == <<nodes, lines, num_processed, num_incomplete, line, entry, geo_entry,
          outcome, pc, q, nx_graph, inserted, dequeued, emitted, calls>>

\* line, entry and geo_entry are unbound before the first iteration.
NoLine == [kind |-> "unbound", value |-> EmptyDict]
NoEntry == [f \in Fields |-> None]

EmptyGraph == [nodes |-> {}, edges |-> {}]

\* The heap after GeoGraph(root=GeoNode("Earth", PLANET)).
RootOnly == <<GeoNode(Earth, PLANET)>>

\* The heap after the country node is stored under the root.
Seeded ==
    LET country_node == Len(RootOnly) + 1
        h1 == Append(RootOnly, GeoNode(USA, COUNTRY))
    IN  [h1 EXCEPT ![root].children = DictSet(@, h1[country_node].label, country_node)]

InitWith(h) ==
    /\ nodes = h
    /\ lines = MaxLines
    /\ num_processed = 0
    /\ num_incomplete = 0
    /\ line = NoLine
    /\ entry = EmptyDict
    /\ geo_entry = NoEntry
    /\ outcome = "none"
    /\ pc = "ingest"
    /\ q = <<>>
    /\ nx_graph = EmptyGraph
    /\ inserted = {}
    /\ dequeued = <<>>
    /\ emitted = <<>>
    /\ calls = <<>>

\* The script up to the for loop.
Init == InitWith(Seeded)

\* ----------------------------------------------------------------- actions
\* One iteration of the for loop.  json.loads is outside the try block: a
\* line that is not JSON ends the script.  Any exception of g.add_child is
\* caught and counted.
\* Variant of budget_spent: the loop breaks one line later.
budget_spent_late(n) == n = -1

\* The test "if lines == 0" that breaks the loop.
budget_spent(n) == n = 0

ReadLine ==
    /\ pc = "ingest"
    /\ ~budget_spent(lines)
    /\ \E l \in InputLines :
        LET parsed == json_loads(l)
        IN  /\ lines' = lines - 1
            /\ line' = l
            /\ IF parsed.outcome # "ok"
               THEN /\ pc' = "crashed"
                    /\ UNCHANGED <<entry, geo_entry, num_processed, nodes,
                                   outcome, num_incomplete, inserted>>
               ELSE /\ pc' = pc
                    /\ entry' = parsed.value
                    /\ IF "properties" \in DOMAIN parsed.value
                       THEN LET ge == from_properties(parsed.value.properties)
                                r == add_child(nodes, ge)
                            IN  /\ geo_entry' = ge
                                /\ num_processed' = num_processed + 1
                                /\ nodes' = r.nodes
                                /\ outcome' = r.outcome
                                /\ num_incomplete' =
                                       IF r.outcome = "ok" THEN num_incomplete
                                       ELSE num_incomplete + 1
                                /\ inserted' =
                                       IF r.outcome = "ok" THEN inserted \cup {ge}
                                       ELSE inserted
                       ELSE UNCHANGED <<geo_entry, num_processed, nodes, outcome,
                                        num_incomplete, inserted>>
    /\ UNCHANGED <<q, nx_graph, dequeued, emitted, calls>>

\* The loop ends (break on lines == 0, or no line is left); the root is
\* queued and the DiGraph created.
EndIngest ==
    /\ pc = "ingest"
    /\ q' = <<root>>
    /\ nx_graph' = EmptyGraph
    /\ pc' = "export"
    /\ UNCHANGED <<nodes, lines, num_processed, num_incomplete, line, entry,
                   geo_entry, outcome, inserted, dequeued, emitted, calls>>

\* dict.values(): the references in insertion order.  A child is allocated
\* when it is stored, so insertion order is allocation order.
RECURSIVE Ascending(_)
Ascending(S) ==
    IF S = {} THEN <<>>
    ELSE LET m == CHOOSE x \in S : \A y \in S : x <= y
         IN  <<m>> \o Ascending(S \ {m})

\* Variant of DictValues: every reference is given twice.
DictValues_twice(d) ==
    Ascending({d[k] : k \in DOMAIN d}) \o Ascending({d[k] : k \in DOMAIN d})

DictValues(d) == Ascending({d[k] : k \in DOMAIN d})

\* GeoNode.__hash__
__hash__(h, self) == <<h[self].label, h[self].node_type>>

\* Variant of __eq__: nodes with the same label and type are equal.
__eq___by_value(h, self, other) ==
    h[self].label = h[other].label /\ h[self].node_type = h[other].node_type

\* GeoNode defines no __eq__: object.__eq__ holds of the same object only.
__eq__(h, self, other) == self = other

\* The key of a dict that a node is looked up as (same hash, and the same
\* object or an equal one), or the node itself when the dict has none.
DictKey(h, keys, n) ==
    LET found == {k \in keys : /\ __hash__(h, k) = __hash__(h, n)
                               /\ (k = n \/ __eq__(h, k, n))}
    IN  IF found = {} THEN n ELSE CHOOSE k \in found : TRUE

\* DiGraph.add_edge: both nodes are added unless they are keys already, and
\* the edge is stored between the keys.
add_edge(g, h, u, v) ==
    LET ku == DictKey(h, g.nodes, u)
        kv == DictKey(h, g.nodes \cup {ku}, v)
    IN  [nodes |-> g.nodes \cup {ku, kv}, edges |-> g.edges \cup {<<ku, kv>>}]

\* The for loop over the children of the item.
RECURSIVE add_edges(_, _, _, _)
add_edges(g, h, item, children) ==
    IF children = <<>> THEN g
    ELSE add_edges(add_edge(g, h, item, Head(children)), h, item, Tail(children))

\* The pairs (item, child) of that loop, in order.
EdgeCalls(item, children) == [i \in 1..Len(children) |-> <<item, children[i]>>]

\* One iteration of the while loop.
BFSStep ==
    /\ pc = "export"
    /\ q # <<>>
    /\ LET item == Head(q)
           children == DictValues(nodes[item].children)
       IN  /\ nx_graph' = add_edges(nx_graph, nodes, item, children)
           /\ q' = Tail(q) \o children
           /\ dequeued' = Append(dequeued, item)
           /\ emitted' = emitted \o EdgeCalls(item, children)
    /\ UNCHANGED <<nodes, lines, num_processed, num_incomplete, line, entry,
                   geo_entry, outcome, pc, inserted, calls>>

\* The while loop ends.
ExportDone ==
    /\ pc = "export"
    /\ q = <<>>
    /\ pc' = "done"
    /\ UNCHANGED <<nodes, lines, num_processed, num_incomplete, line, entry,
                   geo_entry, outcome, q, nx_graph, inserted, dequeued, emitted,
                   calls>>

Next == ReadLine \/ EndIngest \/ BFSStep \/ ExportDone

Spec == Init /\ [][Next]_vars

\* A GeoGraph whose root was never given the country node: GeoGraph.__init__
\* alone, without the two lines of the script that store it.
InitUnseeded == InitWith(RootOnly)

SpecUnseeded == InitUnseeded /\ [][Next]_vars

\* --------------------------------------- GeoEntry.from_properties on its own
\* Keys of a "properties" object: the six recognized ones and another one.
Keys == Fields \cup {"hash"}

RawStrings == UNION {[1..n -> Alphabet] : n \in 0..MaxRawLen}

\* The key sets of the mappings explored.
KeySets == {K \in SUBSET Keys : Cardinality(K) <= MaxKeys}

InitParse ==
    /\ nodes = Seeded
    /\ lines = MaxLines
    /\ num_processed = 0
    /\ num_incomplete = 0
    /\ line = NoLine
    /\ \E D \in KeySets : \E p \in [D -> RawStrings] : entry = [properties |-> p]
    /\ geo_entry = NoEntry
    /\ outcome = "none"
    /\ pc = "parse"
    /\ q = <<>>
    /\ nx_graph = EmptyGraph
    /\ inserted = {}
    /\ dequeued = <<>>
    /\ emitted = <<>>
    /\ calls = <<>>

\* geo_entry = GeoEntry.from_properties(entry["properties"])
BuildEntry ==
    /\ pc = "parse"
    /\ geo_entry' = from_properties(entry.properties)
    /\ pc' = "parsed"
    /\ UNCHANGED <<nodes, lines, num_processed, num_incomplete, line, entry, outcome,
                   q, nx_graph, inserted, dequeued, emitted, calls>>

SpecParse == InitParse /\ [][BuildEntry]_vars

\* ------------------------------------- GeoGraph.add_child, level by level
\* The GeoEntry values the ingestion loop hands to g.add_child.
GeoEntries == {from_properties(p) : p \in InputProps}

\* The heaps the ingestion loop can have built with at most k calls of
\* g.add_child.
RECURSIVE Heaps(_)
Heaps(k) ==
    IF k = 0 THEN {Seeded}
    ELSE LET H == Heaps(k - 1)
         IN  H \cup {add_child(h, e).nodes : h \in H, e \in GeoEntries}

\* The heaps at the last two lines of the budget.
PriorHeaps == Heaps(MaxLines - 2)

\* --------------------------------------------------- the export on its own
\* The export begins on a heap that the ingestion loop has left.
InitExport ==
    /\ nodes \in Heaps(MaxLines)
    /\ lines = 0
    /\ num_processed = 0
    /\ num_incomplete = 0
    /\ line = NoLine
    /\ entry = NoEntry
    /\ geo_entry = NoEntry
    /\ outcome = "none"
    /\ pc = "export"
    /\ q = <<root>>
    /\ nx_graph = EmptyGraph
    /\ inserted = {}
    /\ dequeued = <<>>
    /\ emitted = <<>>
    /\ calls = <<>>

NextExport == BFSStep \/ ExportDone

SpecExport == InitExport /\ [][NextExport]_vars

\* The script runs on: the while loop goes on while the queue holds an item
\* and ends when it holds none.
SpecExportFair == SpecExport /\ WF_vars(NextExport)

\* The frame of a call of g.add_child that has just been made on the heap
\* h.  History: the heap at the call, the iterations made, and whether the
\* call has stored a child under a label that had one.
Frame(child_entry, h) ==
    [child_entry |-> child_entry, node_type |-> PLANET, cur_node |-> NoNode,
     status |-> "called", before |-> h, steps |-> 0, overwrote |-> FALSE]

InitWalk ==
    /\ nodes \in PriorHeaps
    /\ lines = 1
    /\ num_processed = 0
    /\ num_incomplete = 0
    /\ line = NoLine
    /\ entry = NoEntry
    /\ geo_entry \in GeoEntries
    /\ outcome = "none"
    /\ pc = "walk"
    /\ q = <<>>
    /\ nx_graph = EmptyGraph
    /\ inserted = {}
    /\ dequeued = <<>>
    /\ emitted = <<>>
    /\ calls = <<Frame(geo_entry, nodes)>>

\* The test of is_valid on entry to g.add_child, and cur_node = None.
Enter ==
    /\ pc = "walk"
    /\ calls[1].status = "called"
    /\ calls' = [calls EXCEPT ![1].status =
                    IF is_valid(calls[1].child_entry) THEN "loop" ELSE "ValueError"]
    /\ UNCHANGED <<nodes, lines, num_processed, num_incomplete, line, entry,
                   geo_entry, outcome, pc, q, nx_graph, inserted, dequeued,
                   emitted>>

\* Variant of NextType: the level after STREET is UNIT.
NextType_skip(node_type) == IF node_type = STREET THEN UNIT ELSE node_type + 1

\* Variant of NextType: the level after UNIT is NUMBER again.
NextType_back(node_type) == IF node_type = UNIT THEN NUMBER ELSE node_type + 1

\* The member of GeoNode.NodeType that the for loop takes after node_type
\* (UNIT + 1 when there is none).
NextType(node_type) == node_type + 1

\* The frame after an iteration that left cur_node and outcome: the loop
\* takes the next member of NodeType, or the call ends.
Advance(f, cur_node, branch_outcome) ==
    LET next_type == NextType(f.node_type)
    IN  [f EXCEPT !.steps = @ + 1,
                  !.cur_node = cur_node,
                  !.node_type =
                      IF branch_outcome = "continue" /\ next_type <= UNIT
                      THEN next_type ELSE @,
                  !.status =
                      IF branch_outcome = "continue"
                      THEN IF next_type <= UNIT THEN "loop" ELSE "ok"
                      ELSE IF branch_outcome = "return" THEN "ok"
                      ELSE branch_outcome]

\* One iteration of the for loop of g.add_child: the branch of the level.
Iterate ==
    /\ pc = "walk"
    /\ calls[1].status = "loop"
    /\ LET f == calls[1]
           b == Branch(nodes, f.child_entry, f.node_type, f.cur_node)
       IN  /\ nodes' = b.nodes
           /\ calls' = [calls EXCEPT ![1] = Advance(f, b.cur_node, b.outcome)]
    /\ UNCHANGED <<lines, num_processed, num_incomplete, line, entry, geo_entry,
                   outcome, pc, q, nx_graph, inserted, dequeued, emitted>>

NextWalk == Enter \/ Iterate

SpecWalk == InitWalk /\ [][NextWalk]_vars

\* A call that is running runs on: nothing suspends it.
SpecWalkFair == SpecWalk /\ WF_vars(NextWalk)

\* ------------------------------- two calls of g.add_child at the same time
\* Two threads call g.add_child on one GeoGraph.  A step of a thread is one
\* iteration of the for loop, but GeoGraph._add_child is two steps when the
\* label is not found: the lookup, and the creation and the store.
Threads == {1, 2}

InitRace ==
    /\ nodes = Seeded
    /\ lines = MaxLines
    /\ num_processed = 0
    /\ num_incomplete = 0
    /\ line = NoLine
    /\ entry = NoEntry
    /\ geo_entry = NoEntry
    /\ outcome = "none"
    /\ pc = "race"
    /\ q = <<>>
    /\ nx_graph = EmptyGraph
    /\ inserted = {}
    /\ dequeued = <<>>
    /\ emitted = <<>>
    /\ \E e1, e2 \in GeoEntries : calls = <<Frame(e1, nodes), Frame(e2, nodes)>>

\* The test of is_valid on entry to g.add_child, by thread t.
Call(t) ==
    /\ pc = "race"
    /\ calls[t].status = "called"
    /\ calls' = [calls EXCEPT ![t].status =
                    IF is_valid(calls[t].child_entry) THEN "loop" ELSE "ValueError"]
    /\ UNCHANGED <<nodes, lines, num_processed, num_incomplete, line, entry,
                   geo_entry, outcome, pc, q, nx_graph, inserted, dequeued,
                   emitted>>

\* The child_label argument of the _add_child call of a level.
child_label_at(child_entry, node_type) ==
    CASE node_type = REGION   -> child_entry.region
      [] node_type = CITY     -> child_entry.city
      [] node_type = POSTCODE -> child_entry.postcode
      [] node_type = STREET   -> child_entry.street
      [] node_type = NUMBER   -> child_entry.number
      [] node_type = UNIT     -> child_entry.unit

\* An iteration of thread t up to the lookup of _add_child: when the branch
\* of the level stores nothing the iteration is complete, else the thread
\* has found no child and stands before the creation.
Lookup(t) ==
    /\ pc = "race"
    /\ calls[t].status = "loop"
    /\ LET f == calls[t]
           b == Branch(nodes, f.child_entry, f.node_type, f.cur_node)
       IN  calls' = [calls EXCEPT ![t] =
                        IF b.nodes = nodes
                        THEN Advance(f, b.cur_node, b.outcome)
                        ELSE [f EXCEPT !.status = "store"]]
    /\ UNCHANGED <<nodes, lines, num_processed, num_incomplete, line, entry,
                   geo_entry, outcome, pc, q, nx_graph, inserted, dequeued,
                   emitted>>

\* Variant of create_and_store: the label is looked up again and a child
\* that is there by now is returned.
create_and_store_if_absent(h, parent_node, child_label, child_type) ==
    _add_child(h, parent_node, child_label, child_type)

\* The body of "if child_node is None" of _add_child: the node is created
\* and stored under its label, whatever the dict holds by now.
create_and_store(h, parent_node, child_label, child_type) ==
    LET new == Len(h) + 1
        h1 == Append(h, GeoNode(child_label, child_type))
    IN  [nodes |-> [h1 EXCEPT ![parent_node].children = DictSet(@, child_label, new)],
         child_node |-> new]

\* The rest of the iteration of thread t after a lookup that found no child.
Store(t) ==
    /\ pc = "race"
    /\ calls[t].status = "store"
    /\ LET f == calls[t]
           child_label == child_label_at(f.child_entry, f.node_type)
           r == create_and_store(nodes, f.cur_node, child_label, f.node_type)
           g == Advance(f, r.child_node, "continue")
       IN  /\ nodes' = r.nodes
           /\ calls' = [calls EXCEPT ![t] =
                 [g EXCEPT !.overwrote =
                     @ \/ child_label \in DOMAIN nodes[f.cur_node].children]]
    /\ UNCHANGED <<lines, num_processed, num_incomplete, line, entry, geo_entry,
                   outcome, pc, q, nx_graph, inserted, dequeued, emitted>>

NextRace == \E t \in Threads : Call(t) \/ Lookup(t) \/ Store(t)

SpecRace == InitRace /\ [][NextRace]_vars

\* ------------------------------------ two calls of g.add_child, either order
\* Two records are at hand on a heap the ingestion loop has left, and
\* g.add_child is called with the one and then with the other.
InitOrder ==
    /\ nodes \in PriorHeaps
    /\ lines = 2
    /\ num_processed = 0
    /\ num_incomplete = 0
    /\ line = NoLine
    /\ entry = NoEntry
    /\ geo_entry = NoEntry
    /\ outcome = "none"
    /\ pc = "order"
    /\ q = <<>>
    /\ nx_graph = EmptyGraph
    /\ inserted = {}
    /\ dequeued = <<>>
    /\ emitted = <<>>
    /\ \E e1, e2 \in GeoEntries : calls = <<Frame(e1, nodes), Frame(e2, nodes)>>

\* g.add_child(calls[t].child_entry), as the whole call.
Insert(t) ==
    /\ pc = "order"
    /\ calls[t].status = "called"
    /\ LET r == add_child(nodes, calls[t].child_entry)
       IN  /\ nodes' = r.nodes
           /\ calls' = [calls EXCEPT ![t].status = r.outcome]
    /\ UNCHANGED <<lines, num_processed, num_incomplete, line, entry, geo_entry,
                   outcome, pc, q, nx_graph, inserted, dequeued, emitted>>

NextOrder == \E t \in {1, 2} : Insert(t)

SpecOrder == InitOrder /\ [][NextOrder]_vars

\* ============================================================== properties
\* Vocabulary of the properties, stated on the heap without the operations.

\* The fields a complete record carries.
Required == {"region", "postcode", "city", "street"}

is_complete(e) == \A f \in Required : e[f] # None

\* The labels a record names below the country node, cut at the first
\* absent one of number, unit.
PathOf(e) ==
    <<e.region, e.city, e.postcode, e.street>> \o
    (IF e.number = None THEN <<>>
     ELSE <<e.number>> \o (IF e.unit = None THEN <<>> ELSE <<e.unit>>))

Prefix(path, k) == SubSeq(path, 1, k)

Objects(h) == 1..Len(h)

Kids(h, n) == {h[n].children[k] : k \in DOMAIN h[n].children}

KidLabels(h, n) == {h[c].label : c \in Kids(h, n)}

RECURSIVE ReachFrom(_, _)
ReachFrom(h, S) ==
    LET T == S \cup UNION {Kids(h, n) : n \in S}
    IN  IF T = S THEN S ELSE ReachFrom(h, T)

\* The nodes of the tree: the objects reachable from the root.
TreeNodes(h) == ReachFrom(h, {root})

OfType(h, types) == {n \in TreeNodes(h) : h[n].node_type \in types}

\* The node reached from n along the labels, or NoNode.
RECURSIVE Follow(_, _, _)
Follow(h, n, labels) ==
    IF labels = <<>> THEN n
    ELSE IF Head(labels) \in DOMAIN h[n].children
    THEN Follow(h, h[n].children[Head(labels)], Tail(labels))
    ELSE NoNode

\* The node at a path below the country node, or NoNode.
NodeAt(h, labels) == Follow(h, root, <<USA>> \o labels)

\* The shape of the tree: for every node the labels on the way to it from
\* the root, its own label and its level.
RECURSIVE ShapeFrom(_, _, _)
ShapeFrom(h, n, labels) ==
    {<<labels, h[n].label, h[n].node_type>>} \cup
    UNION {ShapeFrom(h, h[n].children[k], Append(labels, k)) :
              k \in DOMAIN h[n].children}

Shape(h) == ShapeFrom(h, root, <<>>)

\* The label paths from the country node to the nodes below it.
PathsBelowCountry(h) ==
    {SubSeq(s[1], 2, Len(s[1])) : s \in {t \in Shape(h) : Len(t[1]) >= 2}}

\* The beginnings of the path of a record.
Prefixes(e) == {Prefix(PathOf(e), k) : k \in 1..Len(PathOf(e))}

\* path is the beginning of other.
IsPrefix(path, other) ==
    Len(path) <= Len(other) /\ Prefix(other, Len(path)) = path

\* This step read a line that carries a record.
Submitted ==
    /\ lines' = lines - 1
    /\ line'.kind = "json"
    /\ "properties" \in DOMAIN line'.value

\* C1: a record that lacks one of region, postcode, city, street is
\* rejected with ValueError and the heap after the call is the heap before
\* it: no node is created at any level.
C1_IncompleteRejected ==
    [][(Submitted /\ ~is_complete(geo_entry'))
        => (outcome' = "ValueError" /\ nodes' = nodes)]_vars

\* A record with its region present and its street absent was rejected
\* while the tree already held nodes below the country.
C1_Witness ==
    /\ outcome = "ValueError"
    /\ geo_entry.region # None
    /\ geo_entry.street = None
    /\ Len(nodes) > 2

\* C2: when all records inserted so far carry the same region, city,
\* postcode and street, the tree has exactly one REGION, one CITY, one
\* POSTCODE and one STREET node, and the STREET node has exactly one NUMBER
\* child per distinct number of those records.
C2_Dedup ==
    (inserted # {} /\ \A r1, r2 \in inserted : \A f \in Required : r1[f] = r2[f])
    => /\ \A t \in {REGION, CITY, POSTCODE, STREET} :
            Cardinality(OfType(nodes, {t})) = 1
       /\ \A st \in OfType(nodes, {STREET}) :
            LET numbers == {r.number : r \in inserted} \ {None}
            IN  /\ KidLabels(nodes, st) = numbers
                /\ Cardinality(Kids(nodes, st)) = Cardinality(numbers)
                /\ \A c \in Kids(nodes, st) : nodes[c].node_type = NUMBER

\* Two records of one street with different numbers were inserted.
C2_Witness ==
    /\ \A r1, r2 \in inserted : \A f \in Required : r1[f] = r2[f]
    /\ \E r1, r2 \in inserted :
        /\ r1.number # None
        /\ r2.number # None
        /\ r1.number # r2.number

\* C3: inserting the record that was inserted by the previous call changes
\* nothing: the call succeeds and the heap is the same, no node is created.
C3_Idempotent ==
    [][(/\ Submitted
        /\ is_complete(geo_entry')
        /\ outcome = "ok"
        /\ geo_entry' = geo_entry)
        => (outcome' = "ok" /\ nodes' = nodes)]_vars

\* Two records were submitted, both were inserted, and they are one and the
\* same record, with number and unit.
C3_Witness ==
    /\ num_processed = 2
    /\ num_incomplete = 0
    /\ inserted = {geo_entry}
    /\ geo_entry.unit # None
    /\ geo_entry.number # None

\* C4: a complete record without a number is inserted without error, its
\* STREET node is in the tree, and the NUMBER and UNIT nodes of the tree are
\* the same objects with the same contents as before the call.
C4_NoNumber ==
    [][(Submitted /\ is_complete(geo_entry') /\ geo_entry'.number = None)
        => /\ outcome' = "ok"
           /\ NodeAt(nodes', PathOf(geo_entry')) # NoNode
           /\ nodes'[NodeAt(nodes', PathOf(geo_entry'))].node_type = STREET
           /\ OfType(nodes', {NUMBER, UNIT}) = OfType(nodes, {NUMBER, UNIT})
           /\ \A n \in OfType(nodes, {NUMBER, UNIT}) : nodes'[n] = nodes[n]]_vars

\* A complete record with a unit but no number was inserted.
C4_Witness ==
    /\ outcome = "ok"
    /\ is_complete(geo_entry)
    /\ geo_entry.number = None
    /\ geo_entry.unit # None
    /\ NodeAt(nodes, PathOf(geo_entry)) # NoNode

\* C5: a complete record with a number and without a unit is inserted
\* without error, the NUMBER node keyed by its number is under its STREET
\* node, the UNIT nodes of the tree are the same as before the call, and on
\* a fresh builder that NUMBER node has no children.
C5_NoUnit ==
    [][(/\ Submitted
        /\ is_complete(geo_entry')
        /\ geo_entry'.number # None
        /\ geo_entry'.unit = None)
        => LET street == NodeAt(nodes', Prefix(PathOf(geo_entry'), 4))
               number == NodeAt(nodes', PathOf(geo_entry'))
           IN  /\ outcome' = "ok"
               /\ street # NoNode
               /\ number \in Kids(nodes', street)
               /\ nodes'[number].node_type = NUMBER
               /\ nodes'[number].label = geo_entry'.number
               /\ OfType(nodes', {UNIT}) = OfType(nodes, {UNIT})
               /\ \A n \in OfType(nodes, {UNIT}) : nodes'[n] = nodes[n]
               /\ (nodes = Seeded => Kids(nodes', number) = {})]_vars

\* On a fresh builder a record with a number and no unit was inserted, and
\* its NUMBER node has no children.
C5_Witness ==
    /\ outcome = "ok"
    /\ num_processed = 1
    /\ geo_entry.number # None
    /\ geo_entry.unit = None
    /\ NodeAt(nodes, PathOf(geo_entry)) # NoNode
    /\ Kids(nodes, NodeAt(nodes, PathOf(geo_entry))) = {}

\* C6: every child of a node of level k has level k + 1, the root is the
\* only PLANET node, and the root has exactly one child, the COUNTRY node
\* with the fixed label.
C6_Levels ==
    /\ \A n \in Objects(nodes) : \A c \in Kids(nodes, n) :
            nodes[c].node_type = nodes[n].node_type + 1
    /\ {n \in Objects(nodes) : nodes[n].node_type = PLANET} = {root}
    /\ Cardinality(Kids(nodes, root)) = 1
    /\ DOMAIN nodes[root].children = {USA}
    /\ \A c \in Kids(nodes, root) :
            nodes[c].node_type = COUNTRY /\ nodes[c].label = USA

\* The tree reaches down to a UNIT node, after successful and failing calls.
C6_Witness ==
    /\ OfType(nodes, {UNIT}) # {}
    /\ num_incomplete > 0
    /\ Cardinality(inserted) > 1

\* The places where a child is stored: a parent and a key of its dict.
Slots(h) == UNION {{<<o, l>> : l \in DOMAIN h[o].children} : o \in Objects(h)}

\* Walking down from the nodes of the frontier comes back to a node that
\* was met before.
RECURSIVE Revisits(_, _, _)
Revisits(h, frontier, seen) ==
    IF frontier = {} THEN FALSE
    ELSE LET next == UNION {Kids(h, n) : n \in frontier}
         IN  next \cap seen # {} \/ Revisits(h, next, seen \cup next)

\* The paths the inserted records pass through, below the country node.
InsertedPaths ==
    UNION {{Prefix(PathOf(r), k) : k \in 1..Len(PathOf(r))} : r \in inserted}

\* C7: every node but the root is stored as a child in exactly one place
\* and the root in none (the places are as many as those nodes and hold
\* exactly them), every node is reached from the root, and no node is
\* below itself (the walk down from the root meets no node twice); records
\* that differ at or above a level have distinct nodes at that level
\* (distinct paths lead to distinct nodes), and the children of the node at
\* a path are exactly those named by the records inserted through that
\* very path.
C7_Ownership ==
    /\ LET slots == Slots(nodes)
       IN  /\ Cardinality(slots) = Len(nodes) - 1
           /\ {nodes[s[1]].children[s[2]] : s \in slots} = Objects(nodes) \ {root}
    /\ TreeNodes(nodes) = Objects(nodes)
    /\ ~Revisits(nodes, {root}, {root})
    /\ LET paths == InsertedPaths
       IN  /\ \A p \in paths :
                /\ NodeAt(nodes, p) # NoNode
                /\ KidLabels(nodes, NodeAt(nodes, p)) =
                       {u[Len(p) + 1] : u \in {t \in paths : /\ Len(t) = Len(p) + 1
                                                            /\ Prefix(t, Len(p)) = p}}
           /\ Cardinality({NodeAt(nodes, p) : p \in paths}) = Cardinality(paths)

\* One street name was inserted under two postcodes, with a number under
\* one of them that the other does not have.
C7_Witness ==
    \E r1, r2 \in inserted :
        /\ r1.street = r2.street
        /\ r1.postcode # r2.postcode
        /\ r1.number # None
        /\ r1.number # r2.number
        /\ NodeAt(nodes, Prefix(PathOf(r1), 4)) # NodeAt(nodes, Prefix(PathOf(r2), 4))

\* A string with a character that is not whitespace.
NonBlank(s) == \E i \in 1..Len(s) : s[i] \notin Whitespace

\* The string from its first to its last character that is not whitespace.
Trimmed(s) ==
    LET I == {i \in 1..Len(s) : s[i] \notin Whitespace}
        lo == CHOOSE i \in I : \A j \in I : i <= j
        hi == CHOOSE i \in I : \A j \in I : i >= j
    IN  SubSeq(s, lo, hi)

\* C8: GeoEntry.from_properties never fails and yields the six fields: a
\* field holds the trimmed value when its key is in the mapping with a value
\* that is not blank, and None otherwise; other keys have no effect.
C8_FromProperties ==
    /\ pc = "parse" => ENABLED BuildEntry
    /\ pc = "parsed" =>
        /\ DOMAIN geo_entry = Fields
        /\ \A f \in Fields :
            IF f \in DOMAIN entry.properties /\ NonBlank(entry.properties[f])
            THEN geo_entry[f] = Trimmed(entry.properties[f])
            ELSE geo_entry[f] = None

\* A mapping with an unrecognized key and a padded value was converted: the
\* field holds the value without its padding.
C8_Witness ==
    /\ pc = "parsed"
    /\ "hash" \in DOMAIN entry.properties
    /\ \E f \in Fields \cap DOMAIN entry.properties :
        /\ geo_entry[f] # None
        /\ geo_entry[f] # entry.properties[f]

\* C9: both counters start at 0; every submitted record adds one to
\* num_processed, adds one to num_incomplete exactly when it is not
\* complete, leaves the loop running, and is in the tree afterwards when it
\* is complete; no other step changes the counters; num_incomplete never
\* exceeds num_processed.
C9_Counters ==
    /\ num_processed = 0
    /\ num_incomplete = 0
    /\ [][IF Submitted
          THEN /\ num_processed' = num_processed + 1
               /\ num_incomplete' =
                      num_incomplete + (IF is_complete(geo_entry') THEN 0 ELSE 1)
               /\ pc' = "ingest"
               /\ is_complete(geo_entry') =>
                      NodeAt(nodes', PathOf(geo_entry')) # NoNode
          ELSE UNCHANGED <<num_processed, num_incomplete>>]_vars
    /\ [](num_incomplete <= num_processed)

\* A complete record was inserted after a record had been rejected.
C9_Witness ==
    /\ num_incomplete > 0
    /\ num_processed > num_incomplete
    /\ outcome = "ok"
    /\ is_complete(geo_entry)
    /\ NodeAt(nodes, PathOf(geo_entry)) # NoNode

\* C10: on a root without the country node, a complete record ends the call
\* with an error that is not the ValueError of an incomplete record, the
\* heap is unchanged, the script ends, and the record is not counted as
\* incomplete.
C10_MissingCountryFatal ==
    [][(Submitted /\ is_complete(geo_entry') /\ USA \notin DOMAIN nodes[root].children)
        => /\ outcome' \notin {"ok", "ValueError"}
           /\ nodes' = nodes
           /\ pc' = "crashed"
           /\ num_incomplete' = num_incomplete]_vars

\* The pairs (parent, child) of the tree.
TreeEdges(h) == {<<s[1], h[s[1]].children[s[2]]>> : s \in Slots(h)}

\* C11 as claimed: once the export is done, two nodes of the tree are one
\* node of the graph exactly when they have the same label and level, so
\* the graph has one node per (label, level) pair of the tree.
C11_IdentityByLabelLevel ==
    pc = "done" =>
        /\ \A a, b \in nx_graph.nodes :
              (a = b) <=> __hash__(nodes, a) = __hash__(nodes, b)
        /\ {__hash__(nodes, a) : a \in nx_graph.nodes} =
              {__hash__(nodes, n) : n \in TreeNodes(nodes)}

\* C11 as amended: once the export is done, the nodes of the graph are the
\* node objects of the tree, one each, and its edges are the (parent,
\* child) pairs of the tree: nodes with the same label and level under
\* different parents stay distinct nodes of the graph.
C11_IdentityByObject ==
    pc = "done" =>
        /\ nx_graph.nodes = TreeNodes(nodes)
        /\ nx_graph.edges = TreeEdges(nodes)

\* The export is done on a tree with two nodes of the same label and level
\* under different parents.
C11_Witness ==
    /\ pc = "done"
    /\ \E a, b \in nx_graph.nodes :
        a # b /\ __hash__(nodes, a) = __hash__(nodes, b)

\* The nodes of h' that h does not have.
NewNodes(h, h1) == (Len(h) + 1)..Len(h1)

\* The node of h that has n as a child, or NoNode.
ParentOf(h, n) ==
    LET ps == {m \in 1..Len(h) : n \in Kids(h, m)}
    IN  IF ps = {} THEN NoNode ELSE CHOOSE m \in ps : TRUE

\* C12: within one call of add_child the level moves forward by exactly one
\* per iteration that goes on (never back, none skipped), and the call ends
\* without moving; a node created at an iteration has the level of that
\* iteration and is stored under cur_node, which has the level above, so a
\* UNIT node is only created as a child of a NUMBER node; a record with a
\* unit and no number creates no NUMBER and no UNIT node.
C12_ForwardWalk ==
    [][Iterate =>
        LET f == calls[1]
            g == calls'[1]
        IN  /\ g.status = "loop" => g.node_type = f.node_type + 1
            /\ g.status # "loop" => g.node_type = f.node_type
            /\ \A n \in NewNodes(nodes, nodes') :
                  /\ nodes'[n].node_type = f.node_type
                  /\ ParentOf(nodes', n) = f.cur_node
                  /\ nodes[f.cur_node].node_type = f.node_type - 1
                  /\ nodes'[n].node_type = UNIT =>
                        nodes'[ParentOf(nodes', n)].node_type = NUMBER
                  /\ f.child_entry.number = None =>
                        nodes'[n].node_type \notin {NUMBER, UNIT}]_vars

\* A call has ended after it stored a new UNIT node under a NUMBER node.
C12_Witness ==
    /\ calls # <<>>
    /\ pc = "walk"
    /\ calls[1].status = "ok"
    /\ calls[1].node_type = UNIT
    /\ nodes[Len(nodes)].node_type = UNIT
    /\ calls[1].cur_node = Len(nodes)
    /\ nodes[ParentOf(nodes, Len(nodes))].node_type = NUMBER

\* A call of a record with a unit and no number has ended at the NUMBER
\* iteration, on the STREET node.
C12_UnitWithoutNumber ==
    /\ calls # <<>>
    /\ pc = "walk"
    /\ calls[1].status = "ok"
    /\ calls[1].node_type = NUMBER
    /\ calls[1].child_entry.unit # None
    /\ calls[1].child_entry.number = None
    /\ nodes[calls[1].cur_node].node_type = STREET

\* C15: a call of add_child ends: with success after the UNIT iteration,
\* with success at the NUMBER or UNIT iteration of a record without number
\* or unit, or with an error; it has made at most eight iterations by then,
\* whatever the size of the tree.
C15_Terminates ==
    /\ [](calls # <<>> => calls[1].steps <= 8)
    /\ [](calls # <<>> /\ calls[1].status = "ok" =>
            \/ calls[1].node_type = UNIT /\ calls[1].steps = 8
            \/ /\ calls[1].node_type = NUMBER /\ calls[1].steps = 7
               /\ calls[1].child_entry.number = None
            \/ /\ calls[1].node_type = UNIT /\ calls[1].steps = 8
               /\ calls[1].child_entry.unit = None)
    /\ <>(calls # <<>> /\ calls[1].status \in {"ok", "ValueError", "KeyError"})

\* A call has ended after eight iterations on a tree that already had a
\* node at every level.
C15_Witness ==
    /\ calls # <<>>
    /\ pc = "walk"
    /\ calls[1].status = "ok"
    /\ calls[1].steps = 8
    /\ Len(nodes) >= 8

\* Both calls have ended.
RaceOver == \A t \in Threads : calls[t].status \in {"ok", "ValueError", "KeyError"}

\* The heap after the two calls made one after the other, calls[a] first.
Sequential(a, b) ==
    add_child(add_child(calls[a].before, calls[a].child_entry).nodes,
              calls[b].child_entry).nodes

\* C13: two calls of add_child at the same time, with the lookup and the
\* store of _add_child as separate steps.  When both have ended and neither
\* stored under a label that had a child by then, the tree is the tree of
\* the calls made one after the other.  When one of them did, the tree is
\* the tree of that call alone: the nodes of the other call below the
\* label are lost, and unless the other record's path is the beginning of
\* this one's the tree differs from the tree of both sequential orders.
\* No dict ever holds two children of one label.
C13_LostInsert ==
    (pc = "race" /\ RaceOver) =>
        /\ (\A t \in Threads : ~calls[t].overwrote) =>
              Shape(nodes) = Shape(Sequential(1, 2))
        /\ \A t \in Threads : calls[t].overwrote =>
              LET o == 3 - t
              IN  /\ Shape(nodes) =
                        Shape(add_child(calls[t].before, calls[t].child_entry).nodes)
                  /\ calls[o].status = "ok"
                  /\ ~IsPrefix(PathOf(calls[o].child_entry),
                               PathOf(calls[t].child_entry)) =>
                        /\ Shape(nodes) # Shape(Sequential(1, 2))
                        /\ Shape(nodes) # Shape(Sequential(2, 1))
                        /\ NodeAt(nodes, PathOf(calls[o].child_entry)) = NoNode

\* Both calls have returned without error, and the tree is neither the
\* tree of the first then the second nor of the second then the first: the
\* path of one record is not in it.
C13_Witness ==
    /\ pc = "race"
    /\ \A t \in Threads : calls[t].status = "ok"
    /\ Shape(nodes) # Shape(Sequential(1, 2))
    /\ Shape(nodes) # Shape(Sequential(2, 1))
    /\ \E t \in Threads : NodeAt(nodes, PathOf(calls[t].child_entry)) = NoNode

\* The elements of a sequence.
Range(seq) == {seq[i] : i \in DOMAIN seq}

\* C14: the export, begun on the tree that the insert calls have left,
\* dequeues no node twice and emits no edge twice; every emitted edge is a
\* (parent, child) pair of the tree whose parent has been dequeued; when the
\* loop has ended the queue is empty, every node of the tree has been
\* dequeued exactly once and exactly one edge has been emitted into every
\* node but the root; and the loop does end.
C14_Export ==
    /\ [](/\ Cardinality(Range(dequeued)) = Len(dequeued)
          /\ Cardinality(Range(emitted)) = Len(emitted)
          /\ \A e \in Range(emitted) :
                /\ e[2] \in Kids(nodes, e[1])
                /\ e[1] \in Range(dequeued))
    /\ [](pc = "done" =>
            /\ q = <<>>
            /\ Range(dequeued) = TreeNodes(nodes)
            /\ {e[2] : e \in Range(emitted)} = TreeNodes(nodes) \ {root}
            /\ Len(emitted) = Cardinality(TreeNodes(nodes)) - 1)
    /\ [](pc = "export" => <>(pc = "done"))

\* The export has ended on a tree with two streets, one of them with a
\* number and a unit.
C14_Witness ==
    /\ pc = "done"
    /\ Len(dequeued) >= 10
    /\ Len(emitted) = Len(dequeued) - 1
    /\ Cardinality(OfType(nodes, {STREET})) = 2
    /\ OfType(nodes, {UNIT}) # {}

\* C16: the label paths from the country node to the nodes below it are
\* exactly the beginnings (of length 1 up to the whole) of the paths
\* (region, city, postcode, street, then number, then unit, cut at the
\* first absent one of number, unit) of the complete records submitted so
\* far; a record that is not complete adds nothing.  Stated as: there are
\* none at the start, every submitted record adds the beginnings of its
\* path when it is complete and nothing when it is not, and at any time
\* the paths are those of the records add_child accepted, all complete.
C16_PathsOfRecords ==
    /\ [](/\ PathsBelowCountry(nodes) = InsertedPaths
          /\ \A r \in inserted : is_complete(r))
    /\ [][Submitted =>
            PathsBelowCountry(nodes') =
                PathsBelowCountry(nodes) \cup
                (IF is_complete(geo_entry') THEN Prefixes(geo_entry') ELSE {})]_vars

\* Three records were submitted; one was incomplete; the other two share
\* their street and one of them has a number and a unit.
C16_Witness ==
    /\ num_processed = 3
    /\ num_incomplete = 1
    /\ Cardinality(inserted) = 2
    /\ Cardinality(PathsBelowCountry(nodes)) = 6
    /\ \E r \in inserted : r.unit # None /\ r.number # None

\* C17: from any tree the insert calls can have built, the two records
\* inserted in either order leave a tree with the same labels, levels and
\* parent-child relation: the tree after both calls, whichever was made
\* first, has the shape of the tree after the first then the second and of
\* the tree after the second then the first, and each call ends the same
\* way in both orders.
C17_OrderIndependent ==
    (pc = "order" /\ \A t \in {1, 2} : calls[t].status # "called") =>
        /\ Shape(nodes) = Shape(Sequential(1, 2))
        /\ Shape(nodes) = Shape(Sequential(2, 1))
        /\ \A t \in {1, 2} :
              calls[t].status =
                  add_child(calls[t].before, calls[t].child_entry).outcome

\* Both records were inserted, their paths part below the city, and the
\* heaps of the two orders differ (the nodes were created in another
\* order) although the shape is the same.
C17_Witness ==
    /\ pc = "order"
    /\ \A t \in {1, 2} : calls[t].status = "ok"
    /\ calls[1].child_entry.postcode # calls[2].child_entry.postcode
    /\ calls[1].child_entry.number # None
    /\ Sequential(1, 2) # Sequential(2, 1)
    /\ Len(calls[1].before) > 2

\* The nodes on the way from the root along the labels, the root included.
RECURSIVE NodesAlong(_, _, _)
NodesAlong(h, n, labels) ==
    IF n = NoNode THEN {}
    ELSE {n} \cup
         (IF labels = <<>> THEN {}
          ELSE NodesAlong(h, DictGet(h[n].children, Head(labels)), Tail(labels)))

\* The nodes of the tree on the path of a record, from the root down.
OnPath(h, e) == NodesAlong(h, root, <<USA>> \o PathOf(e))

\* C18: a call of add_child removes no node and changes the label, the
\* level and the parent of no node; children are only added, and only to
\* nodes on the path of the record; a call that succeeds creates at most
\* six nodes, all of them on the path of the record, and below a node it
\* created every node of the path was created by it; a call that fails
\* leaves the heap as it was.
C18_MonotoneFrame ==
    [][Submitted =>
        LET e == geo_entry'
            new == NewNodes(nodes, nodes')
            path == OnPath(nodes', e)
        IN  /\ Len(nodes') >= Len(nodes)
            /\ TreeNodes(nodes) \subseteq TreeNodes(nodes')
            /\ \A n \in Objects(nodes) :
                  /\ nodes'[n].label = nodes[n].label
                  /\ nodes'[n].node_type = nodes[n].node_type
                  /\ ParentOf(nodes', n) = ParentOf(nodes, n)
                  /\ \A k \in DOMAIN nodes[n].children :
                        /\ k \in DOMAIN nodes'[n].children
                        /\ nodes'[n].children[k] = nodes[n].children[k]
                  /\ n \notin path => nodes'[n].children = nodes[n].children
            /\ outcome' # "ok" => nodes' = nodes
            /\ outcome' = "ok" =>
                  /\ Cardinality(new) <= 6
                  /\ new \subseteq path
                  /\ \A n \in new : Kids(nodes', n) \subseteq new]_vars

\* A record was inserted into a tree that had its street with another
\* number: the call created the number and the unit node and nothing else.
C18_Witness ==
    /\ outcome = "ok"
    /\ num_processed >= 2
    /\ geo_entry.unit # None
    /\ geo_entry.number # None
    /\ Cardinality(OfType(nodes, {STREET})) = 1
    /\ Cardinality(OfType(nodes, {POSTCODE})) = 1
    /\ Cardinality(OfType(nodes, {NUMBER})) = 2
    /\ nodes[Len(nodes)].node_type = UNIT
    /\ nodes[Len(nodes) - 1].node_type = NUMBER

\* C19: the loop body runs for at most the MaxLines first lines of the
\* file: the budget starts at MaxLines, stays between 0 and MaxLines, and
\* every line taken lowers it by one, with a record or without; processed
\* goes up by one exactly on the lines that carry a record, so it never
\* exceeds the number of lines taken, nor MaxLines; and once the budget is
\* spent no line is taken: nothing more is counted or inserted.
C19_LineBudget ==
    /\ [](/\ lines \in 0..MaxLines
          /\ num_processed <= MaxLines - lines
          /\ num_incomplete + Cardinality(inserted) <= MaxLines - lines)
    /\ [][(pc = "ingest" /\ pc' # "export") =>
            /\ lines > 0
            /\ lines' = lines - 1
            /\ num_processed' =
                  IF line'.kind = "json" /\ "properties" \in DOMAIN line'.value
                  THEN num_processed + 1 ELSE num_processed]_vars
    /\ [][lines = 0 =>
            /\ nodes' = nodes
            /\ inserted' = inserted
            /\ line' = line
            /\ num_processed' = num_processed
            /\ lines' = lines]_vars

\* The budget is spent and the loop has not ended yet; the last line taken
\* carried no record, the others did and were inserted.
C19_Witness ==
    /\ pc = "ingest"
    /\ lines = 0
    /\ line.kind = "json"
    /\ "properties" \notin DOMAIN line.value
    /\ num_processed = MaxLines - 1
    /\ Cardinality(inserted) = MaxLines - 1

====
